---- MODULE Spec2Model ----
(***************************************************************************)
(* A model of mavlog2csv.py: the column parser (parse_cli_column), the     *)
(* message iterator with its arm gate (iter_mavlink_messages), the row     *)
(* projection (message_to_row) and the orchestrating function mavlog2csv   *)
(* with its two scoped resources (the output and the mavlink connection).  *)
(*                                                                         *)
(* Python strings are sequences of one-character strings, so that the      *)
(* regular expression of parse_cli_column and the f-string that builds a   *)
(* row key are computed character by character.                            *)
(***************************************************************************)
EXTENDS Integers, Sequences, FiniteSets, TLC

(***************************************************************************)
(* Bounds of the model.                                                    *)
(***************************************************************************)
MaxCols == 2
MaxSkip == 2
MaxMsgs == 3
MaxStrLen == 4
MaxRowCols == 2

(***************************************************************************)
(* Strings.                                                                *)
(***************************************************************************)
Letters ==
  {"a","b","c","d","e","f","g","h","i","j","k","l","m","n","o","p","q","r","s",
   "t","u","v","w","x","y","z","A","B","C","D","E","F","G","H","I","J","K","L",
   "M","N","O","P","Q","R","S","T","U","V","W","X","Y","Z"}
Digits == {"0","1","2","3","4","5","6","7","8","9"}
\* the class \w of the regular expression
WordChars == Letters \cup Digits \cup {"_"}

S_TEST == <<"T">>
S_OTHER == <<"O">>
S_EV == <<"E","V">>
S_BAD_DATA == <<"B","A","D","_","D","A","T","A">>
S_TimeUS == <<"T","i","m","e","U","S">>
S_TimeS == <<"T","i","m","e","S">>
S_Date == <<"D","a","t","e">>
S_Time == <<"T","i","m","e">>
S_timestamp == <<"_","t","i","m","e","s","t","a","m","p">>
S_Id == <<"I","d">>
S_a == <<"a">>
S_b == <<"b">>
S_x == <<"x">>

(***************************************************************************)
(* Python values: None, bool, int, float (in hundredths), str, and the     *)
(* date and time objects rendered by isoformat().                          *)
(***************************************************************************)
PyNone == [tag |-> "None", i |-> 0, s |-> <<>>]
PyBool(b) == [tag |-> "bool", i |-> IF b THEN 1 ELSE 0, s |-> <<>>]
PyInt(n) == [tag |-> "int", i |-> n, s |-> <<>>]
PyFloat100(h) == [tag |-> "float", i |-> h, s |-> <<>>]
PyStr(str) == [tag |-> "str", i |-> 0, s |-> str]
PyDate(d) == [tag |-> "date", i |-> d, s |-> <<>>]
PyTime(t) == [tag |-> "time", i |-> t, s |-> <<>>]

\* bool(v) of Python
Truthy(v) ==
  CASE v.tag = "None" -> FALSE
    [] v.tag \in {"bool", "int", "float"} -> v.i # 0
    [] v.tag = "str" -> v.s # <<>>
    [] OTHER -> TRUE

(***************************************************************************)
(* parse_cli_column: re.match("(\w+)\.(\w+)", cli_col).  The match is      *)
(* anchored at the start only.  The first group is greedy and the          *)
(* character after it must be a period, which is no word character, so     *)
(* the first group is the whole leading run of word characters.            *)
(***************************************************************************)
RECURSIVE WordRun(_, _)
\* the number of word characters of s from position k on, up to the first other
WordRun(s, k) ==
  IF k <= Len(s) /\ s[k] \in WordChars THEN 1 + WordRun(s, k + 1) ELSE 0

ReMatch(cli_col) ==
  LET n == WordRun(cli_col, 1) IN
    /\ n >= 1
    /\ n + 1 <= Len(cli_col)
    /\ cli_col[n + 1] = "."
    /\ WordRun(cli_col, n + 2) >= 1

Group1(cli_col) == SubSeq(cli_col, 1, WordRun(cli_col, 1))

\* as Group2, the second group one character long
Group2_OneChar(cli_col) ==
  LET n == WordRun(cli_col, 1) IN SubSeq(cli_col, n + 2, n + 2)

Group2(cli_col) ==
  LET n == WordRun(cli_col, 1) IN
    SubSeq(cli_col, n + 2, n + 1 + WordRun(cli_col, n + 2))

\* the pair returned when the match succeeds
parse_cli_column(cli_col) == <<Group1(cli_col), Group2(cli_col)>>

(***************************************************************************)
(* Messages.  A message is its type and its attributes (a function from    *)
(* attribute names to Python values); None is the message with no type.    *)
(***************************************************************************)
NoneMsg == [type |-> <<>>, attrs |-> <<>>]

Msg(type, attrs) == [type |-> type, attrs |-> attrs]

get_type(m) == m.type

HasAttr(m, name) == name \in DOMAIN m.attrs

\* getattr(message, name, default)
GetAttr(m, name, default) == IF HasAttr(m, name) THEN m.attrs[name] ELSE default

\* the records a source can return, numbered; 0 stands for None (no more records)
Messages ==
  << Msg(S_TEST, (S_TimeUS :> PyInt(5000000)) @@ (S_timestamp :> PyInt(90061))
                   @@ (S_a :> PyStr(S_x))),
     Msg(S_TEST, (S_timestamp :> PyInt(90061)) @@ (S_a :> PyStr(S_x))),
     Msg(S_OTHER, (S_TimeUS :> PyInt(125000)) @@ (S_timestamp :> PyInt(90062))
                   @@ (S_a :> PyInt(0))),
     Msg(S_EV, (S_TimeUS :> PyInt(125000)) @@ (S_timestamp :> PyInt(90062))
                   @@ (S_Id :> PyInt(10))),
     Msg(S_EV, (S_TimeUS :> PyInt(5000000)) @@ (S_timestamp :> PyInt(90061))
                   @@ (S_Id :> PyInt(11))),
     Msg(S_BAD_DATA, <<>>) >>

MsgAt(idx) == IF idx = 0 THEN NoneMsg ELSE Messages[idx]

(***************************************************************************)
(* iter_mavlink_messages: the tests of one turn of its loop.               *)
(***************************************************************************)
\* as EndOfStream, the end of the source taken for a bad record
EndOfStream_Never(m) == FALSE

\* message is None: the source has no more records
EndOfStream(m) == m = NoneMsg

\* as is_message_bad, only the missing record bad
is_message_bad_NoneOnly(m) == m = NoneMsg

is_message_bad(m) == m = NoneMsg \/ get_type(m) = S_BAD_DATA

ArmEventId == 10

\* as IsArm, every event counted
IsArm_AnyEvent(m) == get_type(m) = S_EV

\* an arm event
IsArm(m) == get_type(m) = S_EV /\ GetAttr(m, S_Id, PyNone) = PyInt(ArmEventId)

\* as Suppressed, the gate opening one arm event late
Suppressed_OffByOne(armed, skip, m) == armed <= skip \/ get_type(m) = S_EV

\* as Suppressed, events passing the open gate
Suppressed_NoEvent(armed, skip, m) == armed < skip

\* the record is not yielded: the gate is closed, or it is an event
Suppressed(armed, skip, m) == armed < skip \/ get_type(m) = S_EV

(***************************************************************************)
(* mavlink_connect: a generator-based context manager without try/finally; *)
(* the statements after its yield run only when the with block ends        *)
(* without an exception.  The number of close() calls after the exit:      *)
(***************************************************************************)
ConnExit(closes, raised) == IF raised THEN closes ELSE closes + 1

(***************************************************************************)
(* open_output: open(output, "w") for a path; nullcontext(sys.stdout)      *)
(* otherwise, whose exit does nothing.  The number of times the output     *)
(* has been closed after the with block is left:                           *)
(***************************************************************************)
\* as OpenFile, the file opened for appending
OpenFile_Append(out, content) == content

\* what the output holds when open_output returns: open(output, "w")
\* truncates the file, sys.stdout is handed out as it is
OpenFile(out, content) == IF out = "path" THEN <<>> ELSE content

\* as OutputExit, the output left open
OutputExit_NoClose(out, closes) == closes

OutputExit(out, closes) == IF out = "path" THEN closes + 1 ELSE closes

(***************************************************************************)
(* message_to_row.                                                         *)
(***************************************************************************)
MicrosPerSecond == 1000000

\* n / d rounded to the nearest integer, ties to the even one
RoundHalfEven(n, d) ==
  LET q == n \div d
      r == n % d
  IN  IF 2 * r < d THEN q
      ELSE IF 2 * r > d THEN q + 1
      ELSE IF q % 2 = 0 THEN q ELSE q + 1

DoubleMantissaBits == 53

RECURSIVE Exponent(_, _)
\* the integer e with 2^e <= n / d < 2^(e + 1), for n >= 1
Exponent(n, d) ==
  IF n >= d THEN (IF n >= 2 * d THEN 1 + Exponent(n, 2 * d) ELSE 0)
  ELSE Exponent(2 * n, d) - 1

RECURSIVE PowMod(_, _, _)
\* b^k modulo m
PowMod(b, k, m) == IF k = 0 THEN 1 % m ELSE (b * PowMod(b, k - 1, m)) % m

\* n / d as a float: -1 when the double nearest to the quotient is below it,
\* 1 when it is above, 0 when the quotient is a double.  The mantissa is
\* n * 2^s / d rounded to an integer of DoubleMantissaBits bits; what decides
\* is the remainder of n * 2^s by d, which is never d / 2 for d = 200.
DoubleSide(n, d) ==
  LET s == (DoubleMantissaBits - 1) - Exponent(n, d)
      rem == ((n % d) * PowMod(2, s, d)) % d
  IN  IF rem = 0 THEN 0 ELSE IF 2 * rem < d THEN -1 ELSE 1

\* as TimeS, a value halfway between two hundredths rounded up
TimeS_HalfUp(timeus) ==
  LET unit == MicrosPerSecond \div 100 IN
    PyFloat100((timeus.i + unit \div 2) \div unit)

\* round(TimeUS / 1_000_000, 2), in hundredths: round() rounds the double
\* quotient, so a TimeUS halfway between two hundredths goes to the side of
\* the double, and to the even hundredth when the quotient is that double
TimeS(timeus) ==
  LET unit == MicrosPerSecond \div 100
      q == timeus.i \div unit
      side == DoubleSide(2 * q + 1, 2 * 100)
  IN  PyFloat100(IF 2 * (timeus.i % unit) # unit THEN RoundHalfEven(timeus.i, unit)
                 ELSE IF side < 0 THEN q
                 ELSE IF side > 0 THEN q + 1
                 ELSE RoundHalfEven(timeus.i, unit))

\* f"{message.get_type()}.{col}"
RowKey(type, col) == type \o <<".">> \o col

\* as ColValue, only a missing or None value replaced
ColValue_NoneOnly(m, col) ==
  LET v == GetAttr(m, col, PyNone) IN IF v = PyNone THEN PyStr(<<>>) ELSE v

\* getattr(message, col, None) or ""
ColValue(m, col) ==
  LET v == GetAttr(m, col, PyNone) IN IF Truthy(v) THEN v ELSE PyStr(<<>>)

\* as RowFails, a missing attribute read as None
RowFails_Never(m) == FALSE

\* message.TimeUS or message._timestamp raises AttributeError
RowFails(m) == ~HasAttr(m, S_TimeUS) \/ ~HasAttr(m, S_timestamp)

TimeKeys == {S_TimeUS, S_TimeS, S_Date, S_Time}

\* the row of a message on which message.TimeUS and message._timestamp exist
message_to_row(m, cols) ==
  LET ts == GetAttr(m, S_timestamp, PyNone).i
      keys == TimeKeys \cup {RowKey(get_type(m), cols[i]) : i \in DOMAIN cols}
  IN  [k \in keys |->
         CASE k = S_TimeUS -> GetAttr(m, S_TimeUS, PyNone)
           [] k = S_TimeS -> TimeS(GetAttr(m, S_TimeUS, PyNone))
           [] k = S_Date -> PyDate(ts \div 86400)
           [] k = S_Time -> PyTime(ts % 86400)
           [] OTHER ->
                ColValue(m, cols[CHOOSE i \in DOMAIN cols :
                                   RowKey(get_type(m), cols[i]) = k])]

(***************************************************************************)
(* mavlog2csv: what it derives from the parsed columns, and the writer.    *)
(***************************************************************************)
\* as ParseFails, only the first column checked
ParseFails_FirstOnly(cols) == ~ReMatch(cols[1])

ParseFails(cols) == \E i \in DOMAIN cols : ~ReMatch(cols[i])

ParsedColumns(cols) == [i \in DOMAIN cols |-> parse_cli_column(cols[i])]

MessageTypeFilter(parsed) == {parsed[i][1] : i \in DOMAIN parsed}

RECURSIVE TypeColumns(_, _)
\* the columns of one type, in the order of the command line
TypeColumns(parsed, t) ==
  IF parsed = <<>> THEN <<>>
  ELSE (IF Head(parsed)[1] = t THEN <<Head(parsed)[2]>> ELSE <<>>)
         \o TypeColumns(Tail(parsed), t)

MessageTypeColumns(parsed) ==
  [t \in MessageTypeFilter(parsed) |-> TypeColumns(parsed, t)]

Header(cols) == <<S_TimeUS, S_TimeS, S_Date, S_Time>> \o cols

\* as Requested, every yielded record projected
Requested_Always(type, mtc) == TRUE

\* message_type in message_type_columns
Requested(type, mtc) == type \in DOMAIN mtc

\* message_type_columns[message_type] of a defaultdict(list)
Lookup(mtc, type) == IF type \in DOMAIN mtc THEN mtc[type] ELSE <<>>

\* message_type_columns after message_type_columns[message_type] was
\* evaluated: a defaultdict(list) inserts an empty list for a missing key
AfterLookup(mtc, type) ==
  IF type \in DOMAIN mtc THEN mtc ELSE mtc @@ (type :> <<>>)

\* as CallerTypes, the iterator adding to the set it was given
CallerTypes_NoCopy(caller, added) == caller \cup added

\* the set passed as types after the iterator ran types = types.copy() and
\* added to types: the iterator has its own set
CallerTypes(caller, added) == caller

\* DictWriter with extrasaction="raise": a key that is no field name
WrongFields(r, fieldnames) ==
  DOMAIN r \ {fieldnames[i] : i \in DOMAIN fieldnames}

\* as DictToList, a column without a value rendered as None
DictToList_RestvalNone(r, fieldnames) ==
  [i \in DOMAIN fieldnames |->
     IF fieldnames[i] \in DOMAIN r THEN r[fieldnames[i]] ELSE PyNone]

\* DictWriter._dict_to_list: the values in the order of the field names
DictToList(r, fieldnames) ==
  [i \in DOMAIN fieldnames |->
     IF fieldnames[i] \in DOMAIN r THEN r[fieldnames[i]] ELSE PyStr(<<>>)]

\* a written line: the values handed to the csv writer, and the position in
\* the source of the record it was made from (0 for the header)
Line(cells, from) == [cells |-> cells, from |-> from]

HeaderLine(fieldnames) ==
  Line([i \in DOMAIN fieldnames |-> PyStr(fieldnames[i])], 0)

(***************************************************************************)
(* The state of one run of mavlog2csv.                                     *)
(***************************************************************************)
VARIABLES
  columns,               \* argument: the column strings
  output,                \* argument: "path" (a file name) or "none" (None)
  skip_n_arms,           \* argument
  pc,                    \* where the run is
  err,                   \* the exception that ended the run, "" for none
  parsed_columns,        \* locals of mavlog2csv
  message_type_filter,
  message_type_columns,
  header,
  message,               \* the loop variable of mavlog2csv
  row,                   \* the last row projected
  out_opens,             \* how many times the output was acquired
  out_closes,            \* how many times the output was closed
  written,               \* the lines written to the output
  gen,                   \* the generator iter_mavlink_messages
  types,                 \* locals of iter_mavlink_messages
  n_message,
  n_armed,
  conn_opens,            \* how many connections mavlink_connect made
  conn_closes,           \* how many times conn.close() was called
  pulled,                \* what recv_match returned, in order (indices of Messages)
  yielded,               \* the positions in pulled of the records yielded
  run,                   \* 1 for a run, 2 for a second run with the same arguments
  first                  \* in run 2: what run 1 pulled, wrote and ended with

vars ==
  << columns, output, skip_n_arms, pc, err, parsed_columns, message_type_filter,
     message_type_columns, header, message, row, out_opens, out_closes, written,
     gen, types, n_message, n_armed, conn_opens, conn_closes, pulled, yielded,
     run, first >>

args == << columns, output, skip_n_arms >>
locals == << parsed_columns, message_type_filter, message_type_columns, header >>
outvars == << out_opens, out_closes, written >>
itervars == << types, n_message, n_armed >>
connvars == << conn_opens, conn_closes >>
history == << pulled, yielded >>
runs == << run, first >>

\* the column strings a caller passes
ColumnStrings ==
  { RowKey(S_TEST, S_a), RowKey(S_OTHER, S_a), RowKey(S_EV, S_Id), S_TEST,
    RowKey(S_TEST, S_a) \o <<".">> \o S_b }

\* the lists of columns of a run: one to MaxCols of them, each given once
ColumnLists ==
  { cols \in UNION { [1..n -> ColumnStrings] : n \in 1..MaxCols } :
      \A i, j \in DOMAIN cols : i # j => cols[i] # cols[j] }

Fresh ==
  /\ pc = "parse"
  /\ err = ""
  /\ parsed_columns = <<>>
  /\ message_type_filter = {}
  /\ message_type_columns = <<>>
  /\ header = <<>>
  /\ message = NoneMsg
  /\ row = <<>>
  /\ out_opens = 0
  /\ out_closes = 0
  /\ written = <<>>
  /\ gen = "none"
  /\ types = {}
  /\ n_message = 0
  /\ n_armed = 0
  /\ conn_opens = 0
  /\ conn_closes = 0
  /\ pulled = <<>>
  /\ yielded = <<>>

\* nothing ran before
NoRun == [written |-> <<>>, pulled |-> <<>>, err |-> ""]

FirstRun == run = 1 /\ first = NoRun

Init ==
  /\ columns \in ColumnLists
  /\ output \in {"path", "none"}
  /\ skip_n_arms \in 0..MaxSkip
  /\ Fresh
  /\ FirstRun

\* The source and the file system of a second run are those of the first:
\* a call raises in run 2 if and only if it raised in run 1,
Raises(e) == run = 2 => first.err = e

Succeeds(e) == run = 2 => first.err # e

\* and recv_match returns in run 2 what it returned in run 1.
SameRecord(idx) ==
  run = 2 => (Len(pulled) < Len(first.pulled) /\ idx = first.pulled[Len(pulled) + 1])

SameReadError ==
  run = 2 => (first.err = "SourceReadError" /\ pulled = first.pulled)

(***************************************************************************)
(* mavlog2csv, lines 124-142: parse the columns, derive the filter, the    *)
(* map from type to columns and the header.                                *)
(***************************************************************************)
Parse ==
  /\ pc = "parse"
  /\ IF ParseFails(columns)
       THEN /\ pc' = "error"
            /\ err' = "ValueError"
            /\ UNCHANGED locals
       ELSE /\ parsed_columns' = ParsedColumns(columns)
            /\ message_type_filter' = MessageTypeFilter(ParsedColumns(columns))
            /\ message_type_columns' = MessageTypeColumns(ParsedColumns(columns))
            /\ header' = Header(columns)
            /\ pc' = "open"
            /\ err' = err
  /\ UNCHANGED << args, runs, message, row, outvars, gen, itervars, connvars, history >>

(***************************************************************************)
(* lines 144-152: enter open_output, build the writer, write the header.   *)
(***************************************************************************)
OpenOutput ==
  /\ pc = "open"
  /\ Succeeds("OSError")
  /\ out_opens' = out_opens + 1
  /\ written' = Append(OpenFile(output, written), HeaderLine(header))
  /\ pc' = "iter"
  /\ UNCHANGED << args, runs, err, locals, message, row, out_closes, gen, itervars,
                  connvars, history >>

\* open(output, "w") raises
OpenOutputFail ==
  /\ pc = "open"
  /\ output = "path"
  /\ Raises("OSError")
  /\ pc' = "error"
  /\ err' = "OSError"
  /\ UNCHANGED << args, runs, locals, message, row, outvars, gen, itervars, connvars,
                  history >>

(***************************************************************************)
(* The first next() of the generator, lines 75-79: copy the types, add     *)
(* EV, zero the counters, enter mavlink_connect.                           *)
(***************************************************************************)
Connect ==
  /\ pc = "iter"
  /\ Succeeds("ConnectionError")
  /\ types' = message_type_filter \cup {S_EV}
  /\ message_type_filter' = CallerTypes(message_type_filter, {S_EV})
  /\ n_message' = 0
  /\ n_armed' = 0
  /\ conn_opens' = conn_opens + 1
  /\ gen' = "running"
  /\ pc' = "recv"
  /\ UNCHANGED << args, runs, err, parsed_columns, message_type_columns, header, message,
                  row, outvars, conn_closes, history >>

\* mavutil.mavlink_connection(device) raises
ConnectFail ==
  /\ pc = "iter"
  /\ Raises("ConnectionError")
  /\ types' = message_type_filter \cup {S_EV}
  /\ message_type_filter' = CallerTypes(message_type_filter, {S_EV})
  /\ gen' = "finished"
  /\ out_closes' = OutputExit(output, out_closes)
  /\ pc' = "error"
  /\ err' = "ConnectionError"
  /\ UNCHANGED << args, runs, parsed_columns, message_type_columns, header, message, row,
                  out_opens, written, n_message, n_armed, connvars, history >>

(***************************************************************************)
(* One turn of the loop of iter_mavlink_messages, lines 81-98, from the    *)
(* call of recv_match to the break, the continue or the yield.             *)
(***************************************************************************)
RecvMatch ==
  /\ pc = "recv"
  /\ \E idx \in 0..Len(Messages) :
       LET m == MsgAt(idx)
           armed == IF IsArm(m) THEN n_armed + 1 ELSE n_armed
       IN
       /\ idx # 0 => Len(pulled) < MaxMsgs
       /\ SameRecord(idx)
       /\ pulled' = Append(pulled, idx)
       /\ n_message' = n_message + 1
       /\ IF EndOfStream(m)
            THEN \* break: leave mavlink_connect, the generator returns, the for
                 \* loop ends, leave open_output
                 /\ conn_closes' = ConnExit(conn_closes, FALSE)
                 /\ out_closes' = OutputExit(output, out_closes)
                 /\ gen' = "finished"
                 /\ pc' = "done"
                 /\ UNCHANGED << n_armed, message, yielded >>
            ELSE IF is_message_bad(m)
            THEN /\ UNCHANGED << n_armed, message, yielded, gen, pc, conn_closes,
                                 out_closes >>
            ELSE /\ n_armed' = armed
                 /\ IF Suppressed(armed, skip_n_arms, m)
                      THEN UNCHANGED << message, yielded, gen, pc >>
                      ELSE /\ message' = m
                           /\ yielded' = Append(yielded, Len(pulled) + 1)
                           /\ gen' = "suspended"
                           /\ pc' = "body"
                 /\ UNCHANGED << conn_closes, out_closes >>
  /\ UNCHANGED << args, runs, err, locals, row, out_opens, written, types, conn_opens >>

\* recv_match raises: the exception leaves mavlink_connect, the generator,
\* the for loop and open_output
RecvRaise ==
  /\ pc = "recv"
  /\ SameReadError
  /\ conn_closes' = ConnExit(conn_closes, TRUE)
  /\ out_closes' = OutputExit(output, out_closes)
  /\ gen' = "finished"
  /\ pc' = "error"
  /\ err' = "SourceReadError"
  /\ UNCHANGED << args, runs, locals, message, row, out_opens, written, itervars,
                  conn_opens, history >>

(***************************************************************************)
(* The body of the for loop of mavlog2csv, lines 154-157.                  *)
(***************************************************************************)
WriteRow ==
  /\ pc = "body"
  /\ LET message_type == get_type(message)
         r == message_to_row(message, Lookup(message_type_columns, message_type))
     IN
     IF ~Requested(message_type, message_type_columns)
       THEN \* next(): the generator goes on after its yield
            /\ pc' = "recv"
            /\ gen' = "running"
            /\ UNCHANGED << err, row, written, out_closes, message_type_columns >>
       ELSE /\ message_type_columns' =
                 AfterLookup(message_type_columns, message_type)
            /\ IF RowFails(message)
                 THEN /\ pc' = "error"
                      /\ err' = "AttributeError"
                      /\ out_closes' = OutputExit(output, out_closes)
                      /\ UNCHANGED << row, written, gen >>
                 ELSE IF WrongFields(r, header) # {}
                 THEN /\ row' = r
                      /\ pc' = "error"
                      /\ err' = "ValueError"
                      /\ out_closes' = OutputExit(output, out_closes)
                      /\ UNCHANGED << written, gen >>
                 ELSE /\ row' = r
                      /\ written' =
                           Append(written,
                                  Line(DictToList(r, header), yielded[Len(yielded)]))
                      /\ pc' = "recv"
                      /\ gen' = "running"
                      /\ UNCHANGED << err, out_closes >>
  /\ UNCHANGED << args, runs, parsed_columns, message_type_filter, header, message,
                  out_opens, itervars, connvars, history >>

(***************************************************************************)
(* After an exception in the body of the for loop the generator is left    *)
(* suspended at its yield.  When it is collected, close() raises           *)
(* GeneratorExit at the yield, which leaves mavlink_connect as any         *)
(* exception does.                                                         *)
(***************************************************************************)
Finalize ==
  /\ pc = "error"
  /\ gen = "suspended"
  /\ gen' = "closed"
  /\ conn_closes' = ConnExit(conn_closes, TRUE)
  /\ UNCHANGED << args, runs, pc, err, locals, message, row, outvars, itervars,
                  conn_opens, history >>

Next ==
  \/ Parse
  \/ OpenOutput
  \/ OpenOutputFail
  \/ Connect
  \/ ConnectFail
  \/ RecvMatch
  \/ RecvRaise
  \/ WriteRow
  \/ Finalize

Spec == Init /\ [][Next]_vars

(***************************************************************************)
(* Two runs of mavlog2csv with the same arguments on the same source.      *)
(* Everything a run works on is local to mavlog2csv and to the generator,  *)
(* so the second run starts as the first did; what is left of the first    *)
(* run is the content of the file named by output.                         *)
(***************************************************************************)
Restart ==
  /\ run = 1
  /\ pc \in {"done", "error"}
  /\ gen # "suspended"
  /\ run' = 2
  /\ first' = [written |-> written, pulled |-> pulled, err |-> err]
  /\ written' = IF output = "path" THEN written ELSE <<>>
  /\ pc' = "parse"
  /\ err' = ""
  /\ parsed_columns' = <<>>
  /\ message_type_filter' = {}
  /\ message_type_columns' = <<>>
  /\ header' = <<>>
  /\ message' = NoneMsg
  /\ row' = <<>>
  /\ out_opens' = 0
  /\ out_closes' = 0
  /\ gen' = "none"
  /\ types' = {}
  /\ n_message' = 0
  /\ n_armed' = 0
  /\ conn_opens' = 0
  /\ conn_closes' = 0
  /\ pulled' = <<>>
  /\ yielded' = <<>>
  /\ UNCHANGED args

\* the columns of the runs that are repeated
TwoRunColumnLists ==
  { cols \in ColumnLists : Len(cols) = 1 }
    \cup { << RowKey(S_TEST, S_a), RowKey(S_OTHER, S_a) >> }

InitTwoRuns ==
  /\ columns \in TwoRunColumnLists
  /\ output \in {"path", "none"}
  /\ skip_n_arms \in 0..MaxSkip
  /\ Fresh
  /\ FirstRun

NextTwoRuns ==
  \/ Next
  \/ Restart

SpecTwoRuns == InitTwoRuns /\ [][NextTwoRuns]_vars

(***************************************************************************)
(* parse_cli_column alone: every string over a small alphabet as the only  *)
(* column of a run, and the parsing step of that run.                      *)
(***************************************************************************)
ParseAlphabet == {"A", "_", "1", ".", "-"}

ParseStrings == UNION { [1..n -> ParseAlphabet] : n \in 0..MaxStrLen }

InitParse ==
  /\ columns \in { <<str>> : str \in ParseStrings }
  /\ output = "none"
  /\ skip_n_arms = 0
  /\ Fresh
  /\ FirstRun

SpecParse == InitParse /\ [][Parse]_vars

(***************************************************************************)
(* message_to_row alone: a message of a requested type with any            *)
(* combination of attribute values, and the list of columns of its type.   *)
(***************************************************************************)
FieldValues ==
  { PyNone, PyInt(0), PyInt(7), PyBool(FALSE), PyBool(TRUE), PyStr(<<>>),
    PyStr(S_x), PyFloat100(0) }

\* no value: the message has no such attribute
Absent == [tag |-> "absent", i |-> 0, s |-> <<>>]

\* the attribute name with its value, or no attribute at all
Attr(name, v) == IF v = Absent THEN <<>> ELSE name :> v

\* values of TimeUS: whole seconds, between two hundredths, and halfway
\* between two hundredths
TimeUSValues == {5000000, 1234567, 5000, 15000, 25000, 125000, 375000}

RowMessages ==
  { Msg(t, Attr(S_TimeUS, u) @@ (S_timestamp :> PyInt(90061)) @@ Attr(S_a, a)
             @@ Attr(S_b, b)) :
      t \in {S_TEST, S_OTHER},
      u \in {Absent} \cup {PyInt(v) : v \in TimeUSValues},
      a \in FieldValues \cup {Absent},
      b \in {Absent, PyInt(7)} }

RowColumnLists == UNION { [1..n -> {S_a, S_b}] : n \in 1..MaxRowCols }

InitRow ==
  /\ FirstRun
  /\ message \in RowMessages
  /\ \E cols \in RowColumnLists :
       /\ columns = [i \in DOMAIN cols |-> RowKey(get_type(message), cols[i])]
       /\ parsed_columns = [i \in DOMAIN cols |-> <<get_type(message), cols[i]>>]
       /\ message_type_columns = (get_type(message) :> cols)
  /\ message_type_filter = {get_type(message)}
  /\ header = Header(columns)
  /\ output = "none"
  /\ skip_n_arms = 0
  /\ pc = "project"
  /\ err = ""
  /\ row = <<>>
  /\ out_opens = 0
  /\ out_closes = 0
  /\ written = <<>>
  /\ gen = "none"
  /\ types = {}
  /\ n_message = 0
  /\ n_armed = 0
  /\ conn_opens = 0
  /\ conn_closes = 0
  /\ pulled = <<>>
  /\ yielded = <<>>

\* row = message_to_row(message, message_type_columns[message_type]), line 156
ProjectRow ==
  /\ pc = "project"
  /\ IF RowFails(message)
       THEN /\ pc' = "error"
            /\ err' = "AttributeError"
            /\ row' = row
       ELSE /\ row' = message_to_row(message,
                                     Lookup(message_type_columns, get_type(message)))
            /\ pc' = "projected"
            /\ err' = err
  /\ UNCHANGED << args, runs, locals, message, outvars, gen, itervars, connvars, history >>

SpecRow == InitRow /\ [][ProjectRow]_vars

(***************************************************************************)
(* Properties.                                                             *)
(***************************************************************************)
Ended == pc \in {"done", "error"}

PulledMsg(k) == MsgAt(pulled[k])

YieldedSet == {yielded[i] : i \in DOMAIN yielded}

\* a record that is neither None, nor bad, nor an event
IsData(k) == pulled[k] # 0 /\ PulledMsg(k).type \notin {S_EV, S_BAD_DATA}

\* an EV record with Id 10 at position k of what was pulled
IsArmAt(k) ==
  /\ pulled[k] # 0
  /\ PulledMsg(k).type = S_EV
  /\ PulledMsg(k).attrs[S_Id] = PyInt(10)

RECURSIVE ArmsUpTo(_)
\* the number of EV records with Id 10 among the first k pulled
ArmsUpTo(k) ==
  IF k = 0 THEN 0 ELSE ArmsUpTo(k - 1) + (IF IsArmAt(k) THEN 1 ELSE 0)

\* the EV records with Id 10 pulled before position k
ArmsBefore(k) == ArmsUpTo(k - 1)

\* C1: a non-bad, non-EV record pulled from the source is yielded if and only
\* if at least skip_n_arms EV records with Id 10 were pulled before it; the
\* records are yielded in the order they were pulled.
C1_GateMonotonic ==
  /\ \A k \in DOMAIN pulled :
       IsData(k) => (k \in YieldedSet <=> ArmsBefore(k) >= skip_n_arms)
  /\ \A i \in 1..(Len(yielded) - 1) : yielded[i] < yielded[i + 1]

\* a record held back by the closed gate, and a later one let through
C1_Witness ==
  /\ skip_n_arms >= 1
  /\ \E j, k \in DOMAIN pulled :
       /\ j < k
       /\ IsData(j) /\ j \notin YieldedSet
       /\ IsData(k) /\ k \in YieldedSet

\* C2: a record of type EV is never yielded and never produces a row,
\* whatever the gate state and its Id, also when EV is a requested type.
C2_EventNeverYielded ==
  /\ \A i \in DOMAIN yielded : PulledMsg(yielded[i]).type # S_EV
  /\ \A i \in DOMAIN written :
       written[i].from # 0 => PulledMsg(written[i].from).type # S_EV
  /\ get_type(message) # S_EV

\* EV is requested, and events of both Ids were pulled with the gate open
C2_Witness ==
  /\ S_EV \in message_type_filter
  /\ pc = "done"
  /\ \E j, k \in DOMAIN pulled :
       /\ pulled[j] = 4 /\ ArmsBefore(j) >= skip_n_arms
       /\ pulled[k] = 5 /\ ArmsBefore(k) >= skip_n_arms

\* C3: the connection is opened once and close() is called on it exactly
\* once when the run ends, on every exit path.
C3_ConnectionClosedOnce ==
  (Ended /\ conn_opens > 0) => (conn_opens = 1 /\ conn_closes = 1)

\* C4: when one of the column strings fails to parse, the run ends with the
\* parse error and has done no I/O: the output is not opened, nothing is
\* written, the source is not connected.
C4_ParseErrorBeforeIO ==
  (pc # "parse" /\ \E i \in DOMAIN columns : ~ReMatch(columns[i])) =>
     /\ pc = "error"
     /\ err = "ValueError"
     /\ out_opens = 0
     /\ written = <<>>
     /\ conn_opens = 0
     /\ gen = "none"

\* the bad column is not the first one
C4_Witness ==
  /\ pc = "error"
  /\ Len(columns) = 2
  /\ ReMatch(columns[1])
  /\ ~ReMatch(columns[2])

IsRequestedAt(k) == PulledMsg(k).type \in message_type_filter

RECURSIVE Froms(_)
\* the source positions of the lines of a sequence of lines
Froms(lines) ==
  IF lines = <<>> THEN <<>> ELSE <<Head(lines).from>> \o Froms(Tail(lines))

\* C5: a run that ends without error has written the header once and first,
\* then one row per yielded record of a requested type, in the order of the
\* source; a yielded record of another type has no row.
C5_HeaderThenRows ==
  pc = "done" =>
    /\ Len(written) >= 1
    /\ written[1].from = 0
    /\ written[1].cells =
         [i \in 1..(4 + Len(columns)) |->
            PyStr((<<S_TimeUS, S_TimeS, S_Date, S_Time>> \o columns)[i])]
    /\ Froms(Tail(written)) = SelectSeq(yielded, IsRequestedAt)

\* two rows written, and a yielded record of a type that was not requested
C5_Witness ==
  /\ pc = "done"
  /\ Len(written) = 3
  /\ \E i \in DOMAIN yielded : ~IsRequestedAt(yielded[i])

\* exactly one period, between two non-empty word tokens
WellFormed(str) ==
  \E k \in 2..(Len(str) - 1) :
    /\ str[k] = "."
    /\ \A j \in DOMAIN str : j # k => str[j] \in WordChars

\* C6: parse_cli_column fails for every string that is not exactly one
\* period between two non-empty word tokens.
C6_MalformedRejected ==
  (pc # "parse" /\ ~WellFormed(columns[1])) => (pc = "error" /\ err = "ValueError")

\* the values Python takes for false
Falsy == {PyNone, PyInt(0), PyBool(FALSE), PyStr(<<>>), PyFloat100(0)}

\* C7: message_to_row gives every requested field the key
\* '<record type>.<field name>', with the empty string when the record has
\* no such field or its value is falsy, and the raw value otherwise.
C7_FalsyToEmpty ==
  pc = "projected" =>
    LET cols == message_type_columns[message.type] IN
      /\ DOMAIN row =
           TimeKeys \cup {message.type \o <<".">> \o cols[i] : i \in DOMAIN cols}
      /\ \A i \in DOMAIN cols :
           row[message.type \o <<".">> \o cols[i]] =
             IF cols[i] \notin DOMAIN message.attrs
                  \/ message.attrs[cols[i]] \in Falsy
               THEN PyStr(<<>>)
               ELSE message.attrs[cols[i]]

\* a row with a missing field, a field that is zero and a field kept as it is
C7_Witness ==
  /\ pc = "projected"
  /\ message.type = S_TEST
  /\ message_type_columns[S_TEST] = <<S_a, S_b>>
  /\ S_a \in DOMAIN message.attrs
  /\ message.attrs[S_a] = PyInt(0)
  /\ row[RowKey(S_TEST, S_a)] = PyStr(<<>>)
  /\ row[RowKey(S_TEST, S_b)] = PyInt(7)

\* the part of a column string before its first period
ColumnType(c) ==
  LET k == CHOOSE n \in DOMAIN c : c[n] = "." /\ \A j \in 1..(n - 1) : c[j] # "."
  IN  SubSeq(c, 1, k - 1)

\* the field a column string names for a record of the given type, <<>> when
\* the string does not start with that type and a period
ColumnField(c, type) ==
  LET p == type \o <<".">> IN
    IF Len(c) > Len(p) /\ SubSeq(c, 1, Len(p)) = p
      THEN SubSeq(c, Len(p) + 1, Len(c))
      ELSE <<>>

\* C8: in every data row the values are in header order, and every column of
\* a type other than the type of the record the row was made from holds the
\* empty string.
C8_RowInHeaderOrder ==
  \A i \in DOMAIN written :
    written[i].from # 0 =>
      LET m == PulledMsg(written[i].from)
          cells == written[i].cells
      IN  /\ Len(cells) = 4 + Len(columns)
          /\ cells[1] = m.attrs[S_TimeUS]
          /\ \A j \in DOMAIN columns :
               LET f == ColumnField(columns[j], m.type) IN
                 /\ ColumnType(columns[j]) # m.type => cells[4 + j] = PyStr(<<>>)
                 /\ ColumnType(columns[j]) = m.type =>
                      cells[4 + j] =
                        IF f \in DOMAIN m.attrs /\ m.attrs[f] \notin Falsy
                          THEN m.attrs[f]
                          ELSE PyStr(<<>>)

\* a row of a TEST record under a header with a column of another type first
C8_Witness ==
  /\ columns = <<RowKey(S_OTHER, S_a), RowKey(S_TEST, S_a)>>
  /\ \E i \in DOMAIN written :
       /\ written[i].from # 0
       /\ PulledMsg(written[i].from).type = S_TEST
       /\ written[i].cells[5] = PyStr(<<>>)
       /\ written[i].cells[6] = PyStr(S_x)

\* C9: the output is acquired once per run and closed on every exit path,
\* for a file and for the standard output alike.
C9_OutputClosedOnExit ==
  /\ out_opens <= 1
  /\ (Ended /\ out_opens = 1) => out_closes = 1

\* C9, amended: the output is acquired at most once; a file given by path is
\* closed exactly once on every exit path after it was opened; the standard
\* output is never closed; a parse error ends the run before the output is
\* acquired.
C9_FileClosedOnExit ==
  /\ out_opens <= 1
  /\ out_closes <= out_opens
  /\ (Ended /\ output = "path") => out_closes = out_opens
  /\ output = "none" => out_closes = 0
  /\ (Ended /\ header = <<>>) => out_opens = 0

\* an error while a row is projected, with the output a file
C9_Witness ==
  /\ pc = "error"
  /\ err = "AttributeError"
  /\ output = "path"
  /\ out_opens = 1
  /\ out_closes = 1

\* C10: the first time the source returns no record the iteration ends:
\* nothing is pulled from the source after it and nothing is yielded.
C10_StopsAtNone ==
  /\ n_message = Len(pulled)
  /\ \A k \in DOMAIN pulled :
       pulled[k] = 0 =>
         /\ k = Len(pulled)
         /\ pc = "done"
         /\ gen = "finished"
         /\ \A i \in DOMAIN yielded : yielded[i] < k

\* the source ran dry after records were pulled and yielded
C10_Witness ==
  /\ pc = "done"
  /\ Len(pulled) = 3
  /\ pulled[3] = 0
  /\ Len(yielded) = 2

\* the record at position k of what was pulled has a TimeUS field
HasTimeUS(k) == S_TimeUS \in DOMAIN PulledMsg(k).attrs

\* C11: a yielded record of a requested type without TimeUS ends the run with
\* an error and gets no row, the rows of the earlier records stay as they
\* were; every row written is a complete row of a record that has TimeUS.
C11_NoPartialRow ==
  /\ \A i \in DOMAIN yielded :
       (IsRequestedAt(yielded[i]) /\ ~HasTimeUS(yielded[i])) =>
          /\ i = Len(yielded)
          /\ pc = "body" \/ (pc = "error" /\ err = "AttributeError")
          /\ Froms(Tail(written)) =
               SelectSeq(SubSeq(yielded, 1, i - 1), IsRequestedAt)
  /\ \A i \in DOMAIN written :
       written[i].from # 0 =>
          /\ HasTimeUS(written[i].from)
          /\ Len(written[i].cells) = 4 + Len(columns)
          /\ written[i].cells[1] = PulledMsg(written[i].from).attrs[S_TimeUS]
          /\ written[i].cells[2].tag = "float"
          /\ written[i].cells[3].tag = "date"
          /\ written[i].cells[4].tag = "time"

\* the run ended on a record without TimeUS after a row had been written
C11_Witness ==
  /\ pc = "error"
  /\ err = "AttributeError"
  /\ Len(written) = 2
  /\ Len(yielded) = 2
  /\ ~HasTimeUS(yielded[2])

\* the position of the only period of a well-formed column string
PeriodAt(str) == CHOOSE k \in DOMAIN str : str[k] = "."

\* C12: for a string <Type>.<Field> of two non-empty word tokens,
\* parse_cli_column returns exactly the pair (Type, Field).
C12_WellFormedParsed ==
  (pc # "parse" /\ WellFormed(columns[1])) =>
     /\ pc = "open"
     /\ parsed_columns =
          << << SubSeq(columns[1], 1, PeriodAt(columns[1]) - 1),
                SubSeq(columns[1], PeriodAt(columns[1]) + 1, Len(columns[1])) >> >>

\* a field of more than one character
C12_Witness ==
  /\ pc = "open"
  /\ columns = << <<"A", ".", "1", "_">> >>
  /\ parsed_columns = << << <<"A">>, <<"1", "_">> >> >>

\* C13: TimeUS of a row is the record's TimeUS and TimeS is TimeUS / 1_000_000
\* rounded to 2 decimal places, a tie rounded up.
C13_TimeSHalfUp ==
  pc = "projected" =>
    /\ row[S_TimeUS] = message.attrs[S_TimeUS]
    /\ row[S_TimeS] = PyFloat100((message.attrs[S_TimeUS].i + 5000) \div 10000)

\* C13, amended: TimeUS of a row is the record's TimeUS and TimeS is the
\* hundredth nearest to TimeUS / 1_000_000; a TimeUS halfway between two
\* hundredths is not always rounded up: round() decides on the double
\* quotient, as the values listed show.
C13_TimeSNearest ==
  pc = "projected" =>
    LET t == message.attrs[S_TimeUS].i
        h == row[S_TimeS].i
    IN  /\ row[S_TimeUS] = message.attrs[S_TimeUS]
        /\ row[S_TimeS].tag = "float"
        /\ 10000 * h - t <= 5000
        /\ t - 10000 * h <= 5000
        /\ t = 5000 => h = 1
        /\ t = 15000 => h = 1
        /\ t = 25000 => h = 3
        /\ t = 125000 => h = 12
        /\ t = 375000 => h = 38

\* 0.125 is a double and goes to the even hundredth
C13_Witness ==
  /\ pc = "projected"
  /\ message.attrs[S_TimeUS] = PyInt(125000)
  /\ row[S_TimeS] = PyFloat100(12)

\* a BAD_DATA record at position k of what was pulled
IsBadAt(k) == pulled[k] # 0 /\ PulledMsg(k).type = S_BAD_DATA

\* C15: a BAD_DATA record is skipped in silence: it is never yielded and
\* makes no row, the arm count is the number of EV records with Id 10 pulled,
\* whatever bad records lie between them, and after a BAD_DATA record the
\* loop goes on to the next read with no error of its own.
C15_BadDataSkipped ==
  /\ \A k \in DOMAIN pulled : IsBadAt(k) => k \notin YieldedSet
  /\ \A i \in DOMAIN written :
       written[i].from # 0 => ~IsBadAt(written[i].from)
  /\ n_armed = ArmsUpTo(Len(pulled))
  /\ (pulled # <<>> /\ IsBadAt(Len(pulled))) =>
        \/ pc = "recv" /\ err = "" /\ gen = "running"
        \/ pc = "error" /\ err = "SourceReadError"

\* with the gate open, a record that follows a BAD_DATA record is written
C15_Witness ==
  /\ skip_n_arms = 0
  /\ Len(pulled) >= 2
  /\ IsBadAt(1)
  /\ \E i \in DOMAIN written : written[i].from = 2

\* the record of index idx is an EV record with Id 10
ArmRecord(idx) ==
  /\ idx # 0
  /\ Messages[idx].type = S_EV
  /\ Messages[idx].attrs[S_Id] = PyInt(10)

\* C16: the arm counter starts at 0; a step adds 1 to it when it pulls a
\* non-bad EV record with Id 10, and no other step changes it: it never
\* decreases, an EV record with another Id leaves it as it was, and once it
\* has reached skip_n_arms it stays there or above.
C16_ArmCounter ==
  /\ n_armed = 0
  /\ [][/\ n_armed' = IF pulled' # pulled /\ ArmRecord(pulled'[Len(pulled')])
                        THEN n_armed + 1 ELSE n_armed
        /\ n_armed >= skip_n_arms => n_armed' >= skip_n_arms]_vars

\* an arm event opened the gate, a disarm event followed, and the record
\* after it was yielded
C16_Witness ==
  /\ skip_n_arms = 1
  /\ n_armed = 1
  /\ pulled = <<4, 5, 1>>
  /\ 3 \in YieldedSet

\* C17: for every accepted list of column strings, every key of a row that
\* message_to_row makes is a field name of the header, and writing the row
\* never fails: the only ValueError is that of the parse, before any output.
C17_RowKeysInHeader ==
  /\ \A k \in DOMAIN row : \E i \in DOMAIN header : header[i] = k
  /\ (pc = "error" /\ err = "ValueError") => out_opens = 0

\* C18: the map from type to columns and the header are built before the
\* streaming begins and no later step changes them: no record, requested or
\* not, adds a key to the map or changes a list of columns; the set of
\* requested types of the caller is as it was after the iterator added EV to
\* its own filter.
C18_BuiltOnce ==
  [][pc # "parse" =>
       /\ UNCHANGED << parsed_columns, message_type_columns, header >>
       /\ message_type_filter' = message_type_filter
       /\ S_EV \in types' \ message_type_filter' =>
            message_type_filter' = {parsed_columns'[i][1] : i \in DOMAIN parsed_columns'}]_vars

\* EV is not requested and is in the filter of the iterator; a record of a
\* type that is not in the map was yielded, and a row was written after it
C18_Witness ==
  /\ pc = "done"
  /\ S_EV \in types \ message_type_filter
  /\ Len(yielded) = 2
  /\ PulledMsg(yielded[1]).type \notin DOMAIN message_type_columns
  /\ \E i \in DOMAIN written : written[i].from = yielded[2]

\* C14: a second run with the same columns and skip_n_arms over the same
\* record sequence asks the source for nothing more than the first did and
\* ends as the first did, with the same output: the same header and the
\* same rows in the same order, whatever the first run left in the file.
C14_SameOutput ==
  run = 2 =>
    /\ (pc = "recv" /\ pulled = first.pulled) => first.err = "SourceReadError"
    /\ pc \in {"done", "error"} =>
         /\ written = first.written
         /\ pulled = first.pulled
         /\ err = first.err

\* the second run wrote a header and a row to the file the first run wrote
C14_Witness ==
  /\ run = 2
  /\ pc = "done"
  /\ output = "path"
  /\ Len(written) = 2
  /\ written = first.written

====
